---------------------------- MODULE Spec2Model ----------------------------
(***************************************************************************)
(* Engagement and history ledger of the civic-issue reporting backend:     *)
(* complaints (votes, status history, resolution record) and comments      *)
(* (edit history, soft delete, parent context), as the Express route       *)
(* handlers and the Mongoose schemas implement them.                       *)
(*                                                                         *)
(* Documents are records; Mongoose arrays are sequences.  A field that is  *)
(* undefined in the document is NoValue.  Timestamps that no handler reads *)
(* back (votedAt, changedAt, resolvedAt, editedAt) are left out; the       *)
(* comment clock (createdAt, deletedAt) is kept because the edit handler   *)
(* reads it.  The persistence engine is assumed to be up: a save that      *)
(* fails for lack of a database is not modelled, a save that fails on      *)
(* Mongoose's version check is.                                            *)
(***************************************************************************)
EXTENDS Integers, Sequences, FiniteSets, TLC

VARIABLES
  complaints,   \* Complaint collection: id -> document, for the ids created
  users,        \* User collection: id -> [complaintsSubmitted, communities]
  resp,         \* the last HTTP response, with the request it answers
  inflight,     \* vote requests between findById and save (interleaved runs)
  comments,     \* Comment collection: id -> document, for the ids created
  posts,        \* CommunityPost collection: id -> document
  communities,  \* Community collection: id -> document
  now,          \* wall clock, in hours
  cresp         \* the last HTTP response of the comment and community routes

vars == <<complaints, users, resp, inflight, comments, posts, communities,
          now, cresp>>

commentVars == <<comments, posts, communities, now, cresp>>

---------------------------------------------------------------------------
(* Universe of the model *)

NoValue == "undefined"

Users == {"u1", "u2", "admin"}

Role(u) == IF u = "admin" THEN "admin" ELSE "citizen"

ComplaintIds == {"c1"}

Statuses == {"Submitted", "In Progress", "Resolved", "Rejected"}

\* what a client may send as status: the enum, and something outside it
StatusInputs == Statuses \cup {"Closed"}

VoteTypes == {"upvote", "downvote"}

\* what a client may send as voteType
VoteInputs == VoteTypes \cup {"sideways"}

\* the optional comment of a status change
StatusComments == {NoValue, "fixed"}

\* caps on the length of a complaint's statusHistory: where votes and status
\* changes mix, and where status changes run alone
MaxHistory == 2
MaxStatusHistory == 4

---------------------------------------------------------------------------
(* Array helpers *)

\* arr.some(x => x.user.toString() === userId.toString())
Some(arr, u) == \E i \in 1..Len(arr) : arr[i] = u

\* arr.filter(x => x.user.toString() !== userId.toString())
Without(arr, u) == SelectSeq(arr, LAMBDA x : x # u)

IsPrefix(s, t) == Len(s) <= Len(t) /\ SubSeq(t, 1, Len(s)) = s

Suffix(t, n) == SubSeq(t, n + 1, Len(t))

Count(arr, u) == Cardinality({i \in 1..Len(arr) : arr[i] = u})

---------------------------------------------------------------------------
(* Complaint model *)

\* the nested path resolutionDetails of a complaint that was never resolved
NoResolution == [description |-> NoValue, resolvedBy |-> NoValue]

\* new Complaint({...}) with the schema defaults
NewComplaint(u) ==
  [ status            |-> "Submitted",
    submittedBy       |-> u,
    assignedTo        |-> NoValue,
    upvotes           |-> << >>,
    downvotes         |-> << >>,
    comments          |-> << >>,
    statusHistory     |-> << >>,
    resolutionDetails |-> NoResolution ]

\* complaintSchema.methods.hasUserVoted
hasUserVoted(doc, u) ==
  IF Some(doc.upvotes, u) THEN "upvote"
  ELSE IF Some(doc.downvotes, u) THEN "downvote"
  ELSE NoValue

\* the hook without its isModified test: every save of a stored complaint
\* logs the status
ComplaintPreSaveAlways(loaded, mem, isNew) ==
  IF ~isNew
  THEN [mem EXCEPT !.statusHistory =
          Append(@, [status |-> mem.status, changedBy |-> NoValue,
                     comment |-> NoValue])]
  ELSE mem

\* complaintSchema.pre('save'): loaded is the document as read (isModified
\* compares with it), mem the document about to be written
ComplaintPreSave(loaded, mem, isNew) ==
  IF mem.status # loaded.status /\ ~isNew
  THEN [mem EXCEPT !.statusHistory =
          Append(@, [status |-> mem.status, changedBy |-> NoValue,
                     comment |-> NoValue])]
  ELSE mem

(***************************************************************************)
(* document.save() of a loaded document.  Mongoose writes only the paths   *)
(* that were modified since the load: a scalar by $set, an array that was  *)
(* only pushed to by $push of the new elements, an array that was          *)
(* reassigned to a different value by $set of the whole array.  A save     *)
(* that $sets a whole array carries the loaded version (__v) in its filter *)
(* and fails with a VersionError when another versioned save got in first. *)
(* In these handlers an array is either pushed to or replaced by a         *)
(* filtered copy, never both, so the two cases are told apart by whether   *)
(* the loaded value is a prefix of the value in memory.                    *)
(***************************************************************************)
ArrayWrite(db, loaded, mem) ==
  IF mem = loaded THEN db
  ELSE IF IsPrefix(loaded, mem) THEN db \o Suffix(mem, Len(loaded))
  ELSE mem

ScalarWrite(db, loaded, mem) == IF mem = loaded THEN db ELSE mem

ArrayReplaced(loaded, mem) == mem # loaded /\ ~IsPrefix(loaded, mem)

ComplaintNeedsVersion(loaded, mem) ==
  \/ ArrayReplaced(loaded.upvotes, mem.upvotes)
  \/ ArrayReplaced(loaded.downvotes, mem.downvotes)
  \/ ArrayReplaced(loaded.statusHistory, mem.statusHistory)

ComplaintWrite(db, loaded, mem) ==
  [ status            |-> ScalarWrite(db.status, loaded.status, mem.status),
    submittedBy       |-> db.submittedBy,
    assignedTo        |-> db.assignedTo,
    upvotes           |-> ArrayWrite(db.upvotes, loaded.upvotes, mem.upvotes),
    downvotes         |-> ArrayWrite(db.downvotes, loaded.downvotes, mem.downvotes),
    comments          |-> db.comments,
    statusHistory     |-> ArrayWrite(db.statusHistory, loaded.statusHistory,
                                     mem.statusHistory),
    resolutionDetails |-> ScalarWrite(db.resolutionDetails,
                                      loaded.resolutionDetails,
                                      mem.resolutionDetails) ]

\* VoteCompute without line 310: the user's downvote is left in place
VoteComputeKeepsDownvote(doc, u, t) ==
  LET hasUpvoted == Some(doc.upvotes, u)
      hasDownvoted == Some(doc.downvotes, u)
      up == Without(doc.upvotes, u)
      down == doc.downvotes
  IN  IF t = "upvote" /\ ~hasUpvoted
        THEN [doc EXCEPT !.upvotes = Append(up, u), !.downvotes = down]
      ELSE IF t = "downvote" /\ ~hasDownvoted
        THEN [doc EXCEPT !.upvotes = up, !.downvotes = Append(down, u)]
      ELSE [doc EXCEPT !.upvotes = up, !.downvotes = down]

\* VoteCompute without the "if different from existing" tests of lines 313 and
\* 315: a repeated vote is cast again
VoteComputeSticky(doc, u, t) ==
  LET up == Without(doc.upvotes, u)
      down == Without(doc.downvotes, u)
  IN  IF t = "upvote"
        THEN [doc EXCEPT !.upvotes = Append(up, u), !.downvotes = down]
        ELSE [doc EXCEPT !.upvotes = up, !.downvotes = Append(down, u)]

\* POST /:id/vote, the in-memory part (lines 304-317)
VoteCompute(doc, u, t) ==
  LET hasUpvoted == Some(doc.upvotes, u)
      hasDownvoted == Some(doc.downvotes, u)
      up == Without(doc.upvotes, u)
      down == Without(doc.downvotes, u)
  IN  IF t = "upvote" /\ ~hasUpvoted
        THEN [doc EXCEPT !.upvotes = Append(up, u), !.downvotes = down]
      ELSE IF t = "downvote" /\ ~hasDownvoted
        THEN [doc EXCEPT !.upvotes = up, !.downvotes = Append(down, u)]
      ELSE [doc EXCEPT !.upvotes = up, !.downvotes = down]

\* StatusCompute with the history holding the latest change only
StatusComputeKeepsLatest(doc, u, s, cm) ==
  LET pushed == [doc EXCEPT
                   !.status = s,
                   !.statusHistory =
                      << [status |-> s, changedBy |-> u, comment |-> cm] >>]
  IN  IF s = "Resolved"
        THEN [pushed EXCEPT !.resolutionDetails =
                [description |-> cm, resolvedBy |-> u]]
        ELSE pushed

\* StatusCompute with the resolution record written whatever the new status
StatusComputeResolvesAll(doc, u, s, cm) ==
  [doc EXCEPT
     !.status = s,
     !.statusHistory = Append(@, [status |-> s, changedBy |-> u, comment |-> cm]),
     !.resolutionDetails = [description |-> cm, resolvedBy |-> u]]

\* PUT /:id/status, the in-memory part (lines 242-259)
StatusCompute(doc, u, s, cm) ==
  LET pushed == [doc EXCEPT
                   !.status = s,
                   !.statusHistory =
                      Append(@, [status |-> s, changedBy |-> u, comment |-> cm])]
  IN  IF s = "Resolved"
        THEN [pushed EXCEPT !.resolutionDetails =
                [description |-> cm, resolvedBy |-> u]]
        ELSE pushed

---------------------------------------------------------------------------
(* Responses *)

NoPre == [up |-> 0, down |-> 0, vote |-> NoValue, histLen |-> 0]
NoOut == [upvoteCount |-> 0, downvoteCount |-> 0, userVote |-> NoValue]

NoResp ==
  [ op |-> "none", user |-> NoValue, cid |-> NoValue, arg |-> NoValue,
    code |-> 0, saved |-> FALSE, emitOk |-> TRUE, pre |-> NoPre, out |-> NoOut,
    again |-> FALSE, note |-> NoValue ]

Response(op, u, c, arg, code) ==
  [NoResp EXCEPT !.op = op, !.user = u, !.cid = c, !.arg = arg, !.code = code]

\* what the request found: the vote counts and the user's vote before a vote,
\* the length of the status history before a status change
VotePre(doc, u) ==
  [NoPre EXCEPT !.up = Len(doc.upvotes), !.down = Len(doc.downvotes),
                !.vote = hasUserVoted(doc, u)]

StatusPre(doc) == [NoPre EXCEPT !.histLen = Len(doc.statusHistory)]

Reply(r) == resp' = r

\* whether a vote (u, c, t) comes straight after a served vote (u, c, t) that
\* found the user with no vote
Repeats(u, c, t) ==
  /\ resp.op = "vote" /\ resp.code = 200
  /\ resp.user = u /\ resp.cid = c /\ resp.arg = t
  /\ resp.pre.vote = NoValue

---------------------------------------------------------------------------
(* Complaint routes, one request at a time *)

\* io.emit(...) after the save: emitOk is whether the emit returns; when it
\* throws, or io is undefined, control passes to the handler's catch block
AfterEmit(r, okCode, emitOk) ==
  [r EXCEPT !.saved = TRUE, !.emitOk = emitOk,
            !.code = IF emitOk THEN okCode ELSE 500]

\* POST /api/complaints, the new document's _id taken from ids
CreateComplaintAmong(ids, u, valid, emitOk) ==
  IF ~valid
  THEN /\ Reply(Response("create", u, NoValue, NoValue, 400))
       /\ UNCHANGED <<complaints, users>>
  ELSE \E c \in ids \ DOMAIN complaints :
         /\ complaints' = complaints @@ (c :> NewComplaint(u))
         /\ users' = [users EXCEPT ![u].complaintsSubmitted = @ + 1]
         /\ Reply(AfterEmit(Response("create", u, c, NoValue, 0), 201, emitOk))

\* POST /api/complaints
CreateComplaint(u, valid, emitOk) ==
  CreateComplaintAmong(ComplaintIds, u, valid, emitOk)

\* UpdateStatus without the test of lines 237-240
UpdateStatusUnchecked(u, c, s, cm, emitOk) ==
  IF s \notin Statuses
  THEN /\ Reply(Response("status", u, c, s, 400))
       /\ UNCHANGED <<complaints, users>>
  ELSE IF c \notin DOMAIN complaints
  THEN /\ Reply(Response("status", u, c, s, 404))
       /\ UNCHANGED <<complaints, users>>
  ELSE LET loaded == complaints[c]
           mem == ComplaintPreSave(loaded, StatusCompute(loaded, u, s, cm), FALSE)
       IN  /\ complaints' = [complaints EXCEPT ![c] = ComplaintWrite(@, loaded, mem)]
           /\ Reply(AfterEmit([Response("status", u, c, s, 0) EXCEPT
                                 !.pre = StatusPre(loaded), !.note = cm],
                            200, emitOk))
           /\ UNCHANGED users

\* PUT /api/complaints/:id/status
UpdateStatus(u, c, s, cm, emitOk) ==
  IF s \notin Statuses
  THEN /\ Reply(Response("status", u, c, s, 400))
       /\ UNCHANGED <<complaints, users>>
  ELSE IF c \notin DOMAIN complaints
  THEN /\ Reply(Response("status", u, c, s, 404))
       /\ UNCHANGED <<complaints, users>>
  ELSE IF Role(u) # "admin" /\ complaints[c].assignedTo # u
  THEN /\ Reply(Response("status", u, c, s, 403))
       /\ UNCHANGED <<complaints, users>>
  ELSE LET loaded == complaints[c]
           mem == ComplaintPreSave(loaded, StatusCompute(loaded, u, s, cm), FALSE)
       IN  /\ complaints' = [complaints EXCEPT ![c] = ComplaintWrite(@, loaded, mem)]
           /\ Reply(AfterEmit([Response("status", u, c, s, 0) EXCEPT
                                 !.pre = StatusPre(loaded), !.note = cm],
                            200, emitOk))
           /\ UNCHANGED users

\* VoteOut with the schema's voteCount virtual (up minus down) as upvoteCount
VoteOutNet(mem, u) ==
  [ upvoteCount |-> Len(mem.upvotes) - Len(mem.downvotes),
    downvoteCount |-> Len(mem.downvotes),
    userVote |-> hasUserVoted(mem, u) ]

\* the body of the vote response (lines 321-326), from the document in memory
VoteOut(mem, u) ==
  [ upvoteCount |-> Len(mem.upvotes), downvoteCount |-> Len(mem.downvotes),
    userVote |-> hasUserVoted(mem, u) ]

\* Vote without the test of lines 300-302: the handler goes on with null and
\* its TypeError lands in the catch
VoteUnguarded(u, c, t) ==
  IF t \notin VoteTypes
  THEN /\ Reply(Response("vote", u, c, t, 400))
       /\ UNCHANGED <<complaints, users>>
  ELSE IF c \notin DOMAIN complaints
  THEN /\ Reply(Response("vote", u, c, t, 500))
       /\ UNCHANGED <<complaints, users>>
  ELSE LET loaded == complaints[c]
           mem == ComplaintPreSave(loaded, VoteCompute(loaded, u, t), FALSE)
       IN  /\ complaints' = [complaints EXCEPT ![c] = ComplaintWrite(@, loaded, mem)]
           /\ Reply([Response("vote", u, c, t, 200) EXCEPT
                       !.saved = TRUE, !.pre = VotePre(loaded, u),
                       !.out = VoteOut(mem, u), !.again = Repeats(u, c, t)])
           /\ UNCHANGED users

\* POST /api/complaints/:id/vote
Vote(u, c, t) ==
  IF t \notin VoteTypes
  THEN /\ Reply(Response("vote", u, c, t, 400))
       /\ UNCHANGED <<complaints, users>>
  ELSE IF c \notin DOMAIN complaints
  THEN /\ Reply(Response("vote", u, c, t, 404))
       /\ UNCHANGED <<complaints, users>>
  ELSE LET loaded == complaints[c]
           mem == ComplaintPreSave(loaded, VoteCompute(loaded, u, t), FALSE)
       IN  /\ complaints' = [complaints EXCEPT ![c] = ComplaintWrite(@, loaded, mem)]
           /\ Reply([Response("vote", u, c, t, 200) EXCEPT
                       !.saved = TRUE, !.pre = VotePre(loaded, u),
                       !.out = VoteOut(mem, u), !.again = Repeats(u, c, t)])
           /\ UNCHANGED users

---------------------------------------------------------------------------
(* The vote route with its two awaits apart: findById, then save.  Between *)
(* them another request may be served.  stale records that a versioned     *)
(* save of the same complaint was committed after this request's load,     *)
(* which is what a comparison of __v values would find.                    *)

NoRequest == [pc |-> "idle"]

Requests == {"r1", "r2"}

\* the users whose requests are interleaved
RaceUsers == {"u1", "u2"}

\* lines 288-302: validation, findById, 404
VoteLoad(r, u, c, t) ==
  /\ inflight[r].pc = "idle"
  /\ IF t \notin VoteTypes
     THEN /\ Reply(Response("vote", u, c, t, 400))
          /\ UNCHANGED inflight
     ELSE IF c \notin DOMAIN complaints
     THEN /\ Reply(Response("vote", u, c, t, 404))
          /\ UNCHANGED inflight
     ELSE /\ inflight' = [inflight EXCEPT ![r] =
                            [pc |-> "loaded", user |-> u, cid |-> c, type |-> t,
                             doc |-> complaints[c], stale |-> FALSE]]
          /\ UNCHANGED resp
  /\ UNCHANGED <<complaints, users>>

\* the other requests that hold a copy of complaint c
Overtaken(r, c) ==
  [q \in Requests |->
     IF q # r /\ inflight[q].pc = "loaded" /\ inflight[q].cid = c
     THEN [inflight[q] EXCEPT !.stale = TRUE]
     ELSE inflight[q]]

\* lines 304-330: compute, save, respond; a VersionError lands in the catch
VoteSave(r) ==
  /\ inflight[r].pc = "loaded"
  /\ LET q == inflight[r]
         loaded == q.doc
         mem == ComplaintPreSave(loaded, VoteCompute(loaded, q.user, q.type), FALSE)
     IN  IF ComplaintNeedsVersion(loaded, mem) /\ q.stale
         THEN /\ Reply(Response("vote", q.user, q.cid, q.type, 500))
              /\ inflight' = [inflight EXCEPT ![r] = NoRequest]
              /\ UNCHANGED complaints
         ELSE /\ complaints' = [complaints EXCEPT
                                  ![q.cid] = ComplaintWrite(@, loaded, mem)]
              /\ inflight' = [Overtaken(r, q.cid) EXCEPT ![r] = NoRequest]
              /\ Reply([Response("vote", q.user, q.cid, q.type, 200) EXCEPT
                          !.saved = TRUE, !.pre = VotePre(loaded, q.user),
                          !.out = VoteOut(mem, q.user)])
  /\ UNCHANGED users

---------------------------------------------------------------------------
(* Communities and their posts: what the comment routes need of them *)

CommunityIds == {"g1"}

CommunityNames == {"n1"}

PostIds == {"p1"}

\* isMember answering no for every user
isMemberOfNone(community, u) == FALSE

\* communitySchema.methods.isMember
isMember(community, u) ==
  \E i \in 1..Len(community.members) : community.members[i].user = u

NoCPre ==
  [ title |-> NoValue,
    content |-> NoValue, editHistory |-> << >>, isEdited |-> FALSE,
    likes |-> << >>, replies |-> << >>, author |-> NoValue,
    complaint |-> NoValue, communityPost |-> NoValue, parentComment |-> NoValue ]

\* the body of a response of the comment routes: of a like (likeCount,
\* hasLiked), of a listing (ids, nested, total), of a fetch by id (replies,
\* isDeleted)
NoCOut ==
  [ likeCount |-> 0, hasLiked |-> FALSE, ids |-> {}, nested |-> {},
    total |-> 0, replies |-> << >>, isDeleted |-> FALSE ]

\* a user's like state and the like count of a comment before a run of likes
NoOrigin == [liked |-> FALSE, count |-> 0]

\* the ids a comment-creation request names, kept once the request has passed
\* the validation of lines 20-33
NoRefs == [complaint |-> NoValue, communityPost |-> NoValue,
           parentComment |-> NoValue]

NoCResp ==
  [ op |-> "none", user |-> NoValue, id |-> NoValue, arg |-> NoValue,
    code |-> 0, saved |-> FALSE, emitOk |-> TRUE, pre |-> NoCPre,
    out |-> NoCOut, streak |-> 0, origin |-> NoOrigin, refs |-> NoRefs ]

CResponse(op, u, id, arg, code) ==
  [NoCResp EXCEPT !.op = op, !.user = u, !.id = id, !.arg = arg, !.code = code]

CReply(r) == cresp' = r

\* POST /api/communities
CreateCommunity(u, name) ==
  IF \E g \in DOMAIN communities : communities[g].name = name
  THEN /\ CReply(CResponse("createCommunity", u, NoValue, name, 400))
       /\ UNCHANGED <<communities, users>>
  ELSE \E g \in CommunityIds \ DOMAIN communities :
         /\ communities' = communities @@
              (g :> [ name       |-> name,
                      createdBy  |-> u,
                      members    |-> << [user |-> u, role |-> "admin"] >>,
                      moderators |-> << u >>,
                      posts      |-> << >> ])
         /\ users' = [users EXCEPT ![u].communities = Append(@, g)]
         /\ CReply([CResponse("createCommunity", u, g, name, 201) EXCEPT
                      !.saved = TRUE])

\* new CommunityPost({...}) with the schema defaults
NewPost(u, g, title, content) ==
  [ title |-> title, content |-> content, author |-> u, community |-> g,
    comments |-> << >>, likes |-> << >>, views |-> << >>,
    isEdited |-> FALSE, editHistory |-> << >> ]

\* POST /api/communities/:id/posts
CreatePost(u, g, title, content, emitOk) ==
  IF g \notin DOMAIN communities
  THEN /\ CReply(CResponse("createPost", u, g, NoValue, 404))
       /\ UNCHANGED <<communities, posts>>
  ELSE IF ~isMember(communities[g], u)
  THEN /\ CReply(CResponse("createPost", u, g, NoValue, 403))
       /\ UNCHANGED <<communities, posts>>
  ELSE \E p \in PostIds \ DOMAIN posts :
         /\ posts' = posts @@ (p :> NewPost(u, g, title, content))
         /\ communities' = [communities EXCEPT ![g].posts = Append(@, p)]
         /\ CReply([CResponse("createPost", u, p, g, IF emitOk THEN 201 ELSE 500)
                      EXCEPT !.saved = TRUE, !.emitOk = emitOk])

\* titles and contents a post is given
PostTitles == {"T", "T2"}
PostContents == {"P", "P2"}

\* cap on the length of a post's editHistory
MaxPostEdits == 3

\* communityPostSchema.pre('save')
PostPreSave(loaded, mem, isNew) ==
  IF (mem.title # loaded.title \/ mem.content # loaded.content) /\ ~isNew
  THEN [mem EXCEPT
          !.editHistory = Append(@, [title |-> mem.title, content |-> mem.content]),
          !.isEdited = TRUE]
  ELSE mem

\* post.save() of a loaded post, path by path
PostWrite(db, loaded, mem) ==
  [db EXCEPT
     !.title = ScalarWrite(db.title, loaded.title, mem.title),
     !.content = ScalarWrite(db.content, loaded.content, mem.content),
     !.isEdited = ScalarWrite(db.isEdited, loaded.isEdited, mem.isEdited),
     !.editHistory = ArrayWrite(db.editHistory, loaded.editHistory,
                                mem.editHistory)]

\* a stored post loaded, given a title and a content, and saved
SavePost(p, title, content) ==
  /\ p \in DOMAIN posts
  /\ LET loaded == posts[p]
         mem == PostPreSave(loaded,
                            [loaded EXCEPT !.title = title, !.content = content],
                            FALSE)
     IN  /\ posts' = [posts EXCEPT ![p] = PostWrite(@, loaded, mem)]
         /\ CReply([CResponse("savePost", NoValue, p, NoValue, 0) EXCEPT
                      !.saved = TRUE,
                      !.pre = [NoCPre EXCEPT
                                 !.title = loaded.title,
                                 !.content = loaded.content,
                                 !.editHistory = loaded.editHistory,
                                 !.isEdited = loaded.isEdited]])

---------------------------------------------------------------------------
(* Community membership *)

\* community.createdBy.toString() === req.user._id.toString(), with no
\* community ever having a creator
IsCreatorOfNone(community, u) == FALSE

\* community.createdBy.toString() === req.user._id.toString()
IsCreator(community, u) == community.createdBy = u

\* addMember without its isMember test
addMemberUnchecked(community, u) ==
  [community EXCEPT !.members = Append(@, [user |-> u, role |-> "member"])]

\* communitySchema.methods.addMember; role takes the schema default
addMember(community, u) ==
  IF ~isMember(community, u)
  THEN [community EXCEPT !.members = Append(@, [user |-> u, role |-> "member"])]
  ELSE community

\* removeMember with the filter's test turned round: only the user's own
\* records are kept
removeMemberKeepsOnly(community, u) ==
  [community EXCEPT !.members = SelectSeq(@, LAMBDA mb : mb.user = u)]

\* communitySchema.methods.removeMember
removeMember(community, u) ==
  [community EXCEPT !.members = SelectSeq(@, LAMBDA mb : mb.user # u)]

\* community.save() of a loaded community, path by path
CommunityWrite(db, loaded, mem) ==
  [db EXCEPT !.members = ArrayWrite(db.members, loaded.members, mem.members)]

\* how many member records of a community name user u
MemberRecords(community, u) ==
  Cardinality({i \in 1..Len(community.members) : community.members[i].user = u})

\* whether the request's user is already on the loaded member list
Standing(community, u) == IF isMember(community, u) THEN "member" ELSE "stranger"

\* POST /api/communities/:id/join
JoinCommunity(u, g, emitOk) ==
  IF g \notin DOMAIN communities
  THEN /\ CReply(CResponse("join", u, g, NoValue, 404))
       /\ UNCHANGED <<communities, users>>
  ELSE IF isMember(communities[g], u)
  THEN /\ CReply(CResponse("join", u, g, "member", 400))
       /\ UNCHANGED <<communities, users>>
  ELSE LET loaded == communities[g]
           mem == addMember(loaded, u)
       IN  /\ communities' = [communities EXCEPT
                                ![g] = CommunityWrite(@, loaded, mem)]
           /\ users' = [users EXCEPT ![u].communities = Append(@, g)]
           /\ CReply([CResponse("join", u, g, "stranger",
                                IF emitOk THEN 200 ELSE 500)
                        EXCEPT !.saved = TRUE, !.emitOk = emitOk])

\* POST /api/communities/:id/leave
LeaveCommunity(u, g) ==
  IF g \notin DOMAIN communities
  THEN /\ CReply(CResponse("leave", u, g, NoValue, 404))
       /\ UNCHANGED <<communities, users>>
  ELSE IF ~isMember(communities[g], u)
  THEN /\ CReply(CResponse("leave", u, g, "stranger", 400))
       /\ UNCHANGED <<communities, users>>
  ELSE IF IsCreator(communities[g], u)
  THEN /\ CReply(CResponse("leave", u, g, "member", 400))
       /\ UNCHANGED <<communities, users>>
  ELSE LET loaded == communities[g]
           mem == removeMember(loaded, u)
       IN  /\ communities' = [communities EXCEPT
                                ![g] = CommunityWrite(@, loaded, mem)]
           /\ users' = [users EXCEPT
                          ![u].communities = SelectSeq(@, LAMBDA x : x # g)]
           /\ CReply([CResponse("leave", u, g, "member", 200) EXCEPT
                        !.saved = TRUE])

\* The join route with its awaits apart: findById, save, then the update of
\* the user and the response.

\* lines 551-559: findById, 404, the isMember test
JoinLoad(r, u, g) ==
  /\ inflight[r].pc = "idle"
  /\ IF g \notin DOMAIN communities
     THEN /\ CReply(CResponse("join", u, g, NoValue, 404))
          /\ UNCHANGED inflight
     ELSE IF isMember(communities[g], u)
     THEN /\ CReply(CResponse("join", u, g, "member", 400))
          /\ UNCHANGED inflight
     ELSE /\ inflight' = [inflight EXCEPT ![r] =
                            [pc |-> "loaded", user |-> u, cid |-> g,
                             type |-> "join", doc |-> communities[g],
                             stale |-> FALSE]]
          /\ UNCHANGED cresp
  /\ UNCHANGED <<communities, users>>

\* lines 561-562: addMember and save; the save is a $push of the new record,
\* which carries no version test
JoinSave(r) ==
  /\ inflight[r].pc = "loaded" /\ inflight[r].type = "join"
  /\ LET q == inflight[r]
         loaded == q.doc
         mem == addMember(loaded, q.user)
     IN  /\ communities' = [communities EXCEPT
                              ![q.cid] = CommunityWrite(@, loaded, mem)]
         /\ inflight' = [Overtaken(r, q.cid) EXCEPT ![r].pc = "saved"]
  /\ UNCHANGED <<users, cresp>>

\* lines 564-583: $push onto the user's communities, emit, respond
JoinFinish(r, emitOk) ==
  /\ inflight[r].pc = "saved"
  /\ LET q == inflight[r]
     IN  /\ users' = [users EXCEPT ![q.user].communities = Append(@, q.cid)]
         /\ CReply([CResponse("join", q.user, q.cid, "stranger",
                              IF emitOk THEN 200 ELSE 500)
                      EXCEPT !.saved = TRUE, !.emitOk = emitOk])
  /\ inflight' = [inflight EXCEPT ![r] = NoRequest]
  /\ UNCHANGED communities

\* community.addMember(userId) on a loaded community, then save
AddMemberCall(u, g) ==
  /\ g \in DOMAIN communities
  /\ LET loaded == communities[g]
         mem == addMember(loaded, u)
     IN  /\ communities' = [communities EXCEPT
                              ![g] = CommunityWrite(@, loaded, mem)]
         /\ CReply(CResponse("addMember", u, g, Standing(loaded, u), 0))

\* community.removeMember(userId) on a loaded community, then save
RemoveMemberCall(u, g) ==
  /\ g \in DOMAIN communities
  /\ LET loaded == communities[g]
         mem == removeMember(loaded, u)
     IN  /\ communities' = [communities EXCEPT
                              ![g] = CommunityWrite(@, loaded, mem)]
         /\ CReply(CResponse("removeMember", u, g, Standing(loaded, u), 0))

---------------------------------------------------------------------------
(* Comment model *)

CommentIds == {"m1", "m2"}

\* request bodies for a comment's content, before express-validator's trim()
RawContents == {"A", "B ", "  "}

\* String.prototype.trim on those
Trim(raw) ==
  CASE raw = "B " -> "B"
    [] raw = "  " -> ""
    [] OTHER      -> raw

Placeholder == "[This comment has been deleted]"

\* a Date field that is not set
NoTime == 0 - 1

\* the edit window of PUT /api/comments/:id, in hours
EditWindowHours == 24

\* the step of the wall clock and the last hour the model runs to
TickHours == 24
MaxClock == 48

\* cap on the length of a comment's editHistory
MaxEdits == 3

\* new Comment({...}) with the schema defaults and timestamps: true
NewComment(u, content, complaint, communityPost, parentComment, t) ==
  [ content       |-> content,
    author        |-> u,
    complaint     |-> complaint,
    communityPost |-> communityPost,
    parentComment |-> parentComment,
    replies       |-> << >>,
    likes         |-> << >>,
    isEdited      |-> FALSE,
    editHistory   |-> << >>,
    isDeleted     |-> FALSE,
    deletedAt     |-> NoTime,
    createdAt     |-> t ]

\* commentSchema.pre('save')
CommentPreSave(loaded, mem, isNew) ==
  IF mem.content # loaded.content /\ ~isNew
  THEN [mem EXCEPT !.editHistory = Append(@, [content |-> mem.content]),
                   !.isEdited = TRUE]
  ELSE mem

\* comment.save() of a loaded comment, path by path
CommentWrite(db, loaded, mem) ==
  [ content       |-> ScalarWrite(db.content, loaded.content, mem.content),
    author        |-> db.author,
    complaint     |-> db.complaint,
    communityPost |-> db.communityPost,
    parentComment |-> db.parentComment,
    replies       |-> ArrayWrite(db.replies, loaded.replies, mem.replies),
    likes         |-> ArrayWrite(db.likes, loaded.likes, mem.likes),
    isEdited      |-> ScalarWrite(db.isEdited, loaded.isEdited, mem.isEdited),
    editHistory   |-> ArrayWrite(db.editHistory, loaded.editHistory,
                                 mem.editHistory),
    isDeleted     |-> ScalarWrite(db.isDeleted, loaded.isDeleted, mem.isDeleted),
    deletedAt     |-> ScalarWrite(db.deletedAt, loaded.deletedAt, mem.deletedAt),
    createdAt     |-> db.createdAt ]

\* the window test closing at the 24th hour instead of after it
EditWindowClosedEarly(doc, t) == t - doc.createdAt >= EditWindowHours

\* hoursSinceCreation > 24 (lines 169-170), at time t
EditWindowClosed(doc, t) == t - doc.createdAt > EditWindowHours

\* PUT /:id, the in-memory part (lines 174-179)
EditCompute(doc, content) ==
  [doc EXCEPT !.content = content,
              !.isEdited = TRUE,
              !.editHistory = Append(@, [content |-> doc.content])]

\* DeleteCompute that also empties the like set
DeleteComputeClearsLikes(doc, t) ==
  [doc EXCEPT !.isDeleted = TRUE, !.deletedAt = t, !.content = Placeholder,
              !.likes = << >>]

\* DELETE /:id, the in-memory part (lines 213-215)
DeleteCompute(doc, t) ==
  [doc EXCEPT !.isDeleted = TRUE, !.deletedAt = t, !.content = Placeholder]

CPreOf(doc) ==
  [ title |-> NoValue,
    content |-> doc.content, editHistory |-> doc.editHistory,
    isEdited |-> doc.isEdited, likes |-> doc.likes, replies |-> doc.replies,
    author |-> doc.author, complaint |-> doc.complaint,
    communityPost |-> doc.communityPost, parentComment |-> doc.parentComment ]

\* LikeCompute that pushes whether or not the user is in the set
LikeComputeAddsAgain(doc, u) == [doc EXCEPT !.likes = Append(@, u)]

\* POST /:id/like, the in-memory part (lines 237-246)
LikeCompute(doc, u) ==
  IF Some(doc.likes, u)
  THEN [doc EXCEPT !.likes = Without(@, u)]
  ELSE [doc EXCEPT !.likes = Append(@, u)]

CommentNeedsVersion(loaded, mem) ==
  \/ ArrayReplaced(loaded.likes, mem.likes)
  \/ ArrayReplaced(loaded.editHistory, mem.editHistory)

\* the listing filter without its isDeleted test
ListedWithDeleted(doc, field, id) ==
  doc[field] = id /\ doc.parentComment = NoValue

\* { <field>: id, parentComment: { $exists: false }, isDeleted: false }
Listed(doc, field, id) ==
  doc[field] = id /\ doc.parentComment = NoValue /\ ~doc.isDeleted

---------------------------------------------------------------------------
(* Comment routes, one request at a time *)

\* the request's optional ids: NoValue when the field is absent
Given(x) == x # NoValue

\* the existence tests without the one of the parent comment
TargetsMissingButParent(complaint, communityPost, parentComment) ==
  \/ Given(complaint) /\ complaint \notin DOMAIN complaints
  \/ Given(communityPost) /\ communityPost \notin DOMAIN posts

\* lines 35-56: a named complaint, post or parent comment that findById does
\* not find
TargetsMissing(complaint, communityPost, parentComment) ==
  \/ Given(complaint) /\ complaint \notin DOMAIN complaints
  \/ Given(communityPost) /\ communityPost \notin DOMAIN posts
  \/ Given(parentComment) /\ parentComment \notin DOMAIN comments

\* POST /api/comments; m is the _id the new document is given.  A
\* findByIdAndUpdate that finds no document updates nothing.
CreateComment(m, u, raw, complaint, communityPost, parentComment, emitOk) ==
  LET content == Trim(raw)
      refs == [complaint |-> complaint, communityPost |-> communityPost,
               parentComment |-> parentComment]
      reject(code, named) ==
        /\ CReply([CResponse("createComment", u, NoValue, content, code)
                     EXCEPT !.refs = named])
        /\ UNCHANGED <<comments, complaints, posts>>
  IN  IF Len(content) < 1 THEN reject(400, NoRefs)
      ELSE IF ~Given(complaint) /\ ~Given(communityPost) THEN reject(400, NoRefs)
      ELSE IF TargetsMissing(complaint, communityPost, parentComment)
        THEN reject(404, refs)
      ELSE
        LET saved == comments @@
                       (m :> NewComment(u, content, complaint, communityPost,
                                        parentComment, now))
        IN  /\ m \notin DOMAIN comments
            /\ comments' =
                 IF Given(parentComment) /\ parentComment \in DOMAIN saved
                 THEN [saved EXCEPT ![parentComment].replies = Append(@, m)]
                 ELSE saved
            /\ complaints' =
                 IF Given(complaint) /\ complaint \in DOMAIN complaints
                 THEN [complaints EXCEPT ![complaint].comments = Append(@, m)]
                 ELSE complaints
            /\ posts' =
                 IF Given(communityPost) /\ communityPost \in DOMAIN posts
                 THEN [posts EXCEPT ![communityPost].comments = Append(@, m)]
                 ELSE posts
            /\ CReply([CResponse("createComment", u, m, content,
                                 IF emitOk THEN 201 ELSE 500)
                         EXCEPT !.saved = TRUE, !.emitOk = emitOk,
                                !.refs = refs])

\* PUT /api/comments/:id
EditComment(u, m, raw) ==
  LET content == Trim(raw)
      reject(code) ==
        /\ CReply(CResponse("edit", u, m, content, code))
        /\ UNCHANGED comments
  IN  IF Len(content) < 1 THEN reject(400)
      ELSE IF m \notin DOMAIN comments THEN reject(404)
      ELSE IF comments[m].author # u THEN reject(403)
      ELSE IF EditWindowClosed(comments[m], now) THEN reject(403)
      ELSE LET loaded == comments[m]
               mem == CommentPreSave(loaded, EditCompute(loaded, content), FALSE)
           IN  /\ comments' = [comments EXCEPT ![m] = CommentWrite(@, loaded, mem)]
               /\ CReply([CResponse("edit", u, m, content, 200) EXCEPT
                            !.saved = TRUE, !.pre = CPreOf(loaded)])

\* DeleteComment without the test of lines 207-210
DeleteCommentUnchecked(u, m) ==
  IF m \notin DOMAIN comments
  THEN /\ CReply(CResponse("delete", u, m, NoValue, 404))
       /\ UNCHANGED comments
  ELSE LET loaded == comments[m]
           mem == CommentPreSave(loaded, DeleteCompute(loaded, now), FALSE)
       IN  /\ comments' = [comments EXCEPT ![m] = CommentWrite(@, loaded, mem)]
           /\ CReply([CResponse("delete", u, m, NoValue, 200) EXCEPT
                        !.saved = TRUE, !.pre = CPreOf(loaded)])

\* DELETE /api/comments/:id
DeleteComment(u, m) ==
  LET reject(code) ==
        /\ CReply(CResponse("delete", u, m, NoValue, code))
        /\ UNCHANGED comments
  IN  IF m \notin DOMAIN comments THEN reject(404)
      ELSE IF comments[m].author # u /\ Role(u) # "admin" THEN reject(403)
      ELSE LET loaded == comments[m]
               mem == CommentPreSave(loaded, DeleteCompute(loaded, now), FALSE)
           IN  /\ comments' = [comments EXCEPT ![m] = CommentWrite(@, loaded, mem)]
               /\ CReply([CResponse("delete", u, m, NoValue, 200) EXCEPT
                            !.saved = TRUE, !.pre = CPreOf(loaded)])

\* the ghost of a run of likes: whether this like follows a served like of
\* the same user on the same comment
LikeFollows(u, m) ==
  cresp.op = "like" /\ cresp.code = 200 /\ cresp.user = u /\ cresp.id = m

\* POST /api/comments/:id/like
LikeComment(u, m) ==
  IF m \notin DOMAIN comments
  THEN /\ CReply(CResponse("like", u, m, NoValue, 404))
       /\ UNCHANGED comments
  ELSE LET loaded == comments[m]
           hasLiked == Some(loaded.likes, u)
           mem == CommentPreSave(loaded, LikeCompute(loaded, u), FALSE)
       IN  /\ comments' = [comments EXCEPT ![m] = CommentWrite(@, loaded, mem)]
           /\ CReply([CResponse("like", u, m, NoValue, 200) EXCEPT
                        !.saved = TRUE, !.pre = CPreOf(loaded),
                        !.out = [NoCOut EXCEPT !.likeCount = Len(mem.likes),
                                               !.hasLiked = ~hasLiked],
                        !.streak = IF LikeFollows(u, m) THEN cresp.streak + 1
                                   ELSE 1,
                        !.origin = IF LikeFollows(u, m) THEN cresp.origin
                                   ELSE [liked |-> hasLiked,
                                         count |-> Len(loaded.likes)]])

\* populate('replies') with match { isDeleted: false }: the replies that
\* exist and are not deleted, as (parent, reply) pairs
LiveReplies(ids) ==
  {pr \in ids \X DOMAIN comments :
     /\ Some(comments[pr[1]].replies, pr[2])
     /\ ~comments[pr[2]].isDeleted}

\* GET /api/comments/complaint/:complaintId and GET /api/comments/post/:postId
\* with the default page and limit; the collections of the model hold fewer
\* comments than one page, so the page is the whole result
ListComments(op, field, id) ==
  LET ids == {m \in DOMAIN comments : Listed(comments[m], field, id)}
      total == Cardinality({m \in DOMAIN comments :
                              Listed(comments[m], field, id)})
  IN  CReply([CResponse(op, NoValue, id, NoValue, 200) EXCEPT
                !.out = [NoCOut EXCEPT !.ids = ids,
                                       !.nested = LiveReplies(ids),
                                       !.total = total]])

ListComplaintComments(c) == ListComments("listComplaint", "complaint", c)

ListPostComments(p) == ListComments("listPost", "communityPost", p)

\* GET /api/comments/:id; populate('replies') keeps the replies that exist, in
\* the order of their creation, which is the order of the array
GetComment(m) ==
  IF m \notin DOMAIN comments
  THEN CReply(CResponse("get", NoValue, m, NoValue, 404))
  ELSE CReply([CResponse("get", NoValue, m, NoValue, 200) EXCEPT
                 !.out = [NoCOut EXCEPT
                            !.replies = SelectSeq(comments[m].replies,
                                          LAMBDA x : x \in DOMAIN comments),
                            !.isDeleted = comments[m].isDeleted]])

\* lines 231-235 of the like route: findById, 404
LikeLoad(r, u, m) ==
  /\ inflight[r].pc = "idle"
  /\ IF m \notin DOMAIN comments
     THEN /\ CReply(CResponse("like", u, m, NoValue, 404))
          /\ UNCHANGED inflight
     ELSE /\ inflight' = [inflight EXCEPT ![r] =
                            [pc |-> "loaded", user |-> u, cid |-> m,
                             type |-> "like", doc |-> comments[m],
                             stale |-> FALSE]]
          /\ UNCHANGED cresp
  /\ UNCHANGED comments

\* lines 237-258 of the like route: compute, save, respond; a VersionError
\* lands in the catch
LikeSave(r) ==
  /\ inflight[r].pc = "loaded"
  /\ LET q == inflight[r]
         loaded == q.doc
         mem == CommentPreSave(loaded, LikeCompute(loaded, q.user), FALSE)
     IN  IF CommentNeedsVersion(loaded, mem) /\ q.stale
         THEN /\ CReply(CResponse("like", q.user, q.cid, NoValue, 500))
              /\ inflight' = [inflight EXCEPT ![r] = NoRequest]
              /\ UNCHANGED comments
         ELSE /\ comments' = [comments EXCEPT
                                ![q.cid] = CommentWrite(@, loaded, mem)]
              /\ inflight' = [Overtaken(r, q.cid) EXCEPT ![r] = NoRequest]
              /\ CReply([CResponse("like", q.user, q.cid, NoValue, 200) EXCEPT
                           !.saved = TRUE,
                           !.out = [NoCOut EXCEPT
                                      !.likeCount = Len(mem.likes),
                                      !.hasLiked = ~Some(loaded.likes, q.user)]])

\* time passes
Tick ==
  /\ now + TickHours <= MaxClock
  /\ now' = now + TickHours

---------------------------------------------------------------------------
(* Specifications *)

Init ==
  /\ complaints = << >>
  /\ users = [u \in Users |-> [complaintsSubmitted |-> 0, communities |-> << >>]]
  /\ resp = NoResp
  /\ inflight = [r \in Requests |-> NoRequest]
  /\ comments = << >>
  /\ posts = << >>
  /\ communities = << >>
  /\ now = 0
  /\ cresp = NoCResp

HistoryWithin(cap) ==
  \A c \in DOMAIN complaints' : Len(complaints'[c].statusHistory) <= cap

\* the complaint routes, each request served to its end before the next;
\* the broadcast of a status change succeeds here, its failure is followed
\* in SpecStatus
Next ==
  \/ \E u \in Users, valid \in BOOLEAN, emitOk \in BOOLEAN :
       CreateComplaint(u, valid, emitOk) /\ UNCHANGED <<inflight, commentVars>>
  \/ \E u \in Users, c \in ComplaintIds, s \in StatusInputs,
        cm \in StatusComments :
       /\ UpdateStatus(u, c, s, cm, TRUE)
       /\ HistoryWithin(MaxHistory)
       /\ UNCHANGED <<inflight, commentVars>>
  \/ \E u \in Users, c \in ComplaintIds, t \in VoteInputs :
       Vote(u, c, t) /\ UNCHANGED <<inflight, commentVars>>

Spec == Init /\ [][Next]_vars

\* creation and status changes alone, to a longer history
NextStatus ==
  \/ \E u \in Users, valid \in BOOLEAN, emitOk \in BOOLEAN :
       CreateComplaint(u, valid, emitOk) /\ UNCHANGED <<inflight, commentVars>>
  \/ \E u \in Users, c \in ComplaintIds, s \in StatusInputs,
        cm \in StatusComments, emitOk \in BOOLEAN :
       /\ UpdateStatus(u, c, s, cm, emitOk)
       /\ HistoryWithin(MaxStatusHistory)
       /\ UNCHANGED <<inflight, commentVars>>

SpecStatus == Init /\ [][NextStatus]_vars

\* vote requests interleaved at their awaits
NextVoteRace ==
  \/ \E u \in RaceUsers, emitOk \in BOOLEAN :
       CreateComplaint(u, TRUE, emitOk) /\ UNCHANGED <<inflight, commentVars>>
  \/ \E r \in Requests, u \in RaceUsers, c \in ComplaintIds, t \in VoteInputs :
       VoteLoad(r, u, c, t) /\ UNCHANGED commentVars
  \/ \E r \in Requests : VoteSave(r) /\ UNCHANGED commentVars

SpecVoteRace == Init /\ [][NextVoteRace]_vars

EditsWithin(cap) ==
  \A m \in DOMAIN comments' : Len(comments'[m].editHistory) <= cap

\* who writes, edits and deletes comments, and the _ids comments are given,
\* where the life of one comment is followed
CommentUsers == {"u1", "admin"}
FollowedComments == {"m1"}

\* the comment routes, with the routes that create what a comment hangs on
NextComment ==
  \/ /\ CreateComplaint("u1", TRUE, TRUE)
     /\ UNCHANGED <<inflight, commentVars>>
  \/ \E name \in CommunityNames :
       /\ CreateCommunity("u1", name)
       /\ UNCHANGED <<complaints, resp, inflight, comments, posts, now>>
  \/ \E g \in CommunityIds, emitOk \in BOOLEAN :
       /\ CreatePost("u1", g, "T", "P", emitOk)
       /\ UNCHANGED <<complaints, users, resp, inflight, comments, now>>
  \/ \E m \in FollowedComments, u \in CommentUsers, raw \in RawContents,
        c \in ComplaintIds \cup {NoValue}, p \in PostIds \cup {NoValue},
        parent \in FollowedComments \cup {NoValue}, emitOk \in BOOLEAN :
       /\ CreateComment(m, u, raw, c, p, parent, emitOk)
       /\ UNCHANGED <<users, resp, inflight, communities, now>>
  \/ \E u \in CommentUsers, m \in CommentIds, raw \in RawContents :
       /\ EditComment(u, m, raw)
       /\ EditsWithin(MaxEdits)
       /\ UNCHANGED <<complaints, users, resp, inflight, posts, communities, now>>
  \/ \E u \in CommentUsers, m \in CommentIds :
       /\ DeleteComment(u, m)
       /\ EditsWithin(MaxEdits)
       /\ UNCHANGED <<complaints, users, resp, inflight, posts, communities, now>>
  \/ /\ Tick
     /\ UNCHANGED <<complaints, users, resp, inflight, comments, posts,
                    communities, cresp>>

SpecComment == Init /\ [][NextComment]_vars

\* cap on the length of a run of likes by one user on one comment
MaxLikes == 3

LikesWithin(cap) == cresp'.streak <= cap

\* the _id of the next comment: ObjectIds are handed out in increasing order
FreshComment ==
  IF "m1" \notin DOMAIN comments THEN {"m1"} ELSE CommentIds \ DOMAIN comments

\* threads of comments under a complaint or a post: replies, likes, soft
\* deletes, and the read routes
NextThread ==
  \/ /\ CreateComplaint("u1", TRUE, TRUE)
     /\ UNCHANGED <<inflight, commentVars>>
  \/ \E name \in CommunityNames :
       /\ CreateCommunity("u1", name)
       /\ UNCHANGED <<complaints, resp, inflight, comments, posts, now>>
  \/ \E g \in CommunityIds :
       /\ CreatePost("u1", g, "T", "P", TRUE)
       /\ UNCHANGED <<complaints, users, resp, inflight, comments, now>>
  \/ \E m \in FreshComment, u \in CommentUsers,
        c \in ComplaintIds \cup {NoValue}, p \in PostIds \cup {NoValue},
        parent \in CommentIds \cup {NoValue} :
       /\ CreateComment(m, u, "A", c, p, parent, TRUE)
       /\ UNCHANGED <<users, resp, inflight, communities, now>>
  \/ \E u \in CommentUsers, m \in CommentIds :
       /\ LikeComment(u, m)
       /\ LikesWithin(MaxLikes)
       /\ UNCHANGED <<complaints, users, resp, inflight, posts, communities, now>>
  \/ \E u \in CommentUsers, m \in CommentIds :
       /\ DeleteComment(u, m)
       /\ UNCHANGED <<complaints, users, resp, inflight, posts, communities, now>>
  \/ \E c \in ComplaintIds :
       /\ ListComplaintComments(c)
       /\ UNCHANGED <<complaints, users, resp, inflight, comments, posts,
                      communities, now>>
  \/ \E p \in PostIds :
       /\ ListPostComments(p)
       /\ UNCHANGED <<complaints, users, resp, inflight, comments, posts,
                      communities, now>>
  \/ \E m \in CommentIds :
       /\ GetComment(m)
       /\ UNCHANGED <<complaints, users, resp, inflight, comments, posts,
                      communities, now>>

SpecThread == Init /\ [][NextThread]_vars

\* like requests interleaved at their awaits
NextLikeRace ==
  \/ /\ CreateComplaint("u1", TRUE, TRUE)
     /\ UNCHANGED <<inflight, commentVars>>
  \/ \E m \in FollowedComments, c \in ComplaintIds :
       /\ CreateComment(m, "u1", "A", c, NoValue, NoValue, TRUE)
       /\ UNCHANGED <<users, resp, inflight, communities, now>>
  \/ \E r \in Requests, u \in RaceUsers, m \in CommentIds :
       /\ LikeLoad(r, u, m)
       /\ UNCHANGED <<complaints, users, resp, posts, communities, now>>
  \/ \E r \in Requests :
       /\ LikeSave(r)
       /\ UNCHANGED <<complaints, users, resp, posts, communities, now>>

SpecLikeRace == Init /\ [][NextLikeRace]_vars

\* everything that is asked of a complaint: status changes, votes, comments
NextLedger ==
  \/ /\ CreateComplaint("u1", TRUE, TRUE)
     /\ UNCHANGED <<inflight, commentVars>>
  \/ \E u \in CommentUsers, c \in ComplaintIds, s \in StatusInputs,
        cm \in StatusComments :
       /\ UpdateStatus(u, c, s, cm, TRUE)
       /\ HistoryWithin(MaxStatusHistory)
       /\ UNCHANGED <<inflight, commentVars>>
  \/ \E c \in ComplaintIds, t \in VoteInputs :
       Vote("u1", c, t) /\ UNCHANGED <<inflight, commentVars>>
  \/ \E m \in FollowedComments, c \in ComplaintIds :
       /\ CreateComment(m, "u1", "A", c, NoValue, NoValue, TRUE)
       /\ UNCHANGED <<users, resp, inflight, communities, now>>

SpecLedger == Init /\ [][NextLedger]_vars

\* the ids of the complaints where one complaint is watched next to another
FrameComplaintIds == {"c1", "c2"}

\* the _id of the next complaint: ObjectIds are handed out in increasing order
FreshComplaint ==
  IF "c1" \notin DOMAIN complaints THEN {"c1"}
  ELSE FrameComplaintIds \ DOMAIN complaints

\* the complaint routes and comment creation over two complaints
NextFrame ==
  \/ /\ CreateComplaintAmong(FreshComplaint, "u1", TRUE, TRUE)
     /\ UNCHANGED <<inflight, commentVars>>
  \/ \E c \in FrameComplaintIds :
       /\ UpdateStatus("admin", c, "Resolved", "fixed", TRUE)
       /\ HistoryWithin(MaxHistory)
       /\ UNCHANGED <<inflight, commentVars>>
  \/ \E u \in RaceUsers, c \in FrameComplaintIds, t \in VoteInputs :
       Vote(u, c, t) /\ UNCHANGED <<inflight, commentVars>>
  \/ \E m \in FollowedComments, c \in FrameComplaintIds :
       /\ CreateComment(m, "u1", "A", c, NoValue, NoValue, TRUE)
       /\ UNCHANGED <<users, resp, inflight, communities, now>>

SpecFrame == Init /\ [][NextFrame]_vars

PostEditsWithin(cap) ==
  \A p \in DOMAIN posts' : Len(posts'[p].editHistory) <= cap

\* posts created through the route and saved again with new values
NextPost ==
  \/ \E name \in CommunityNames :
       /\ CreateCommunity("u1", name)
       /\ UNCHANGED <<complaints, resp, inflight, comments, posts, now>>
  \/ \E u \in CommentUsers, g \in CommunityIds, title \in PostTitles,
        content \in PostContents, emitOk \in BOOLEAN :
       /\ CreatePost(u, g, title, content, emitOk)
       /\ UNCHANGED <<complaints, users, resp, inflight, comments, now>>
  \/ \E p \in PostIds, title \in PostTitles, content \in PostContents :
       /\ SavePost(p, title, content)
       /\ PostEditsWithin(MaxPostEdits)
       /\ UNCHANGED <<complaints, users, resp, inflight, comments,
                      communities, now>>

SpecPost == Init /\ [][NextPost]_vars

\* join requests interleaved at their awaits
NextJoinRace ==
  \/ \E name \in CommunityNames :
       /\ CreateCommunity("u1", name)
       /\ UNCHANGED <<complaints, resp, inflight, comments, posts, now>>
  \/ \E r \in Requests, u \in Users, g \in CommunityIds :
       /\ JoinLoad(r, u, g)
       /\ UNCHANGED <<complaints, resp, comments, posts, now>>
  \/ \E r \in Requests :
       /\ JoinSave(r)
       /\ UNCHANGED <<complaints, resp, comments, posts, now>>
  \/ \E r \in Requests, emitOk \in BOOLEAN :
       /\ JoinFinish(r, emitOk)
       /\ UNCHANGED <<complaints, resp, comments, posts, now>>

SpecJoinRace == Init /\ [][NextJoinRace]_vars

\* the membership routes
NextCommunity ==
  \/ \E u \in Users, name \in CommunityNames :
       /\ CreateCommunity(u, name)
       /\ UNCHANGED <<complaints, resp, inflight, comments, posts, now>>
  \/ \E u \in Users, g \in CommunityIds, emitOk \in BOOLEAN :
       /\ JoinCommunity(u, g, emitOk)
       /\ UNCHANGED <<complaints, resp, inflight, comments, posts, now>>
  \/ \E u \in Users, g \in CommunityIds :
       /\ LeaveCommunity(u, g)
       /\ UNCHANGED <<complaints, resp, inflight, comments, posts, now>>

SpecCommunity == Init /\ [][NextCommunity]_vars

\* cap on the length of a user's communities list, which a join after a
\* direct removeMember lengthens again
MaxJoined == 2

JoinedWithin(cap) == \A u \in Users : Len(users'[u].communities) <= cap

\* the membership routes, and the model's methods called directly
NextMembers ==
  \/ NextCommunity /\ JoinedWithin(MaxJoined)
  \/ \E u \in Users, g \in CommunityIds :
       /\ AddMemberCall(u, g)
       /\ UNCHANGED <<complaints, users, resp, inflight, comments, posts, now>>
  \/ \E u \in Users, g \in CommunityIds :
       /\ RemoveMemberCall(u, g)
       /\ UNCHANGED <<complaints, users, resp, inflight, comments, posts, now>>

SpecMembers == Init /\ [][NextMembers]_vars

---------------------------------------------------------------------------
(* Properties *)

InBoth(doc, u) == Some(doc.upvotes, u) /\ Some(doc.downvotes, u)

\* C1: with vote requests served one at a time, after every request no user
\* is in both the upvotes and the downvotes of a complaint.
VoteExclusivity ==
  \A c \in DOMAIN complaints : \A u \in Users : ~InBoth(complaints[c], u)

\* C1 witness: a user who held a downvote has just been served an upvote,
\* next to another user's upvote
VoteExclusivityWitness ==
  /\ resp.op = "vote" /\ resp.code = 200
  /\ resp.pre.vote = "downvote" /\ resp.arg = "upvote"
  /\ Len(complaints[resp.cid].upvotes) = 2

\* C2: once two interleaved vote requests of one user on one complaint have
\* both completed, the user is in at most one of upvotes and downvotes.
NoDoubleCountAfterRace ==
  (\A r \in Requests : inflight[r].pc = "idle")
    => \A c \in DOMAIN complaints : \A u \in Users : ~InBoth(complaints[c], u)

\* C3: a vote of type t by a user with no vote, followed at once by a second
\* vote of type t by that user, leaves the user with no vote and both counts
\* as they were before the first of the two.
VoteToggleOff ==
  [][ (resp'.op = "vote" /\ resp'.again /\ resp' # resp)
        => LET doc == complaints'[resp'.cid]
           IN  /\ resp'.out.userVote = NoValue
               /\ hasUserVoted(doc, resp'.user) = NoValue
               /\ Len(doc.upvotes) = resp.pre.up
               /\ Len(doc.downvotes) = resp.pre.down ]_vars

\* C3 witness: the second of two such votes has been served, while another
\* user's vote stands
VoteToggleOffWitness ==
  /\ resp.op = "vote" /\ resp.code = 200 /\ resp.again
  /\ resp.pre.vote = resp.arg
  /\ resp.pre.up + resp.pre.down = 2

\* C4: a served vote of type t leaves a user whose vote was none or the
\* opposite in exactly the set for t, and a user whose vote was t in neither
\* set; the response's counts are the sizes of the saved sets and its userVote
\* is the user's resulting vote.
VoteEffectAndResult ==
  (resp.op = "vote" /\ resp.code = 200)
    => LET doc == complaints[resp.cid]
           u == resp.user
           t == resp.arg
           mine == IF t = "upvote" THEN doc.upvotes ELSE doc.downvotes
           other == IF t = "upvote" THEN doc.downvotes ELSE doc.upvotes
       IN  /\ resp.pre.vote # t => Count(mine, u) = 1 /\ Count(other, u) = 0
           /\ resp.pre.vote = t => Count(mine, u) = 0 /\ Count(other, u) = 0
           /\ resp.out.upvoteCount = Len(doc.upvotes)
           /\ resp.out.downvoteCount = Len(doc.downvotes)
           /\ resp.out.userVote = hasUserVoted(doc, u)
           /\ resp.out.userVote = IF resp.pre.vote = t THEN NoValue ELSE t

\* C4 witness: a user switches from upvote to downvote while another user's
\* downvote stands
VoteEffectWitness ==
  /\ resp.op = "vote" /\ resp.code = 200
  /\ resp.pre.vote = "upvote" /\ resp.arg = "downvote"
  /\ resp.out.downvoteCount = 2 /\ resp.out.upvoteCount = 0

\* C5: every successful status change lengthens the complaint's statusHistory
\* by exactly one entry.
StatusHistoryGrowsByOne ==
  (resp.op = "status" /\ resp.code = 200)
    => Len(complaints[resp.cid].statusHistory) = resp.pre.histLen + 1

\* C6: after a served edit from content A to content B, A # B, the last entry
\* of editHistory holds A, the content is B and isEdited is true.
EditHistoryKeepsPreEdit ==
  (cresp.op = "edit" /\ cresp.code = 200 /\ cresp.pre.content # cresp.arg)
    => LET doc == comments[cresp.id]
       IN  /\ doc.content = cresp.arg
           /\ doc.isEdited
           /\ Len(doc.editHistory) > 0
           /\ doc.editHistory[Len(doc.editHistory)].content = cresp.pre.content

\* C7: a served soft delete leaves editHistory and isEdited as they were.
SoftDeleteNotLogged ==
  (cresp.op = "delete" /\ cresp.code = 200)
    => LET doc == comments[cresp.id]
       IN  /\ doc.editHistory = cresp.pre.editHistory
           /\ doc.isEdited = cresp.pre.isEdited

\* C8: the statusHistory entries a status change appends carry the requesting
\* user as changedBy and the complaint's new status as status.
StatusEntriesRecordActor ==
  (resp.op = "status" /\ resp.saved)
    => LET doc == complaints[resp.cid]
       IN  \A i \in (resp.pre.histLen + 1)..Len(doc.statusHistory) :
             /\ doc.statusHistory[i].changedBy = resp.user
             /\ doc.statusHistory[i].status = doc.status

\* C9: when the emit fails after the mutation was saved, the request still
\* reports success.
NotifyFailureSwallowed ==
  (resp.saved /\ ~resp.emitOk) => resp.code \in {200, 201}

\* C10: every comment has exactly one of complaint and communityPost set.
OneParentContext ==
  \A m \in DOMAIN comments :
    Given(comments[m].complaint) # Given(comments[m].communityPost)

\* C11: with creation, join and leave requests served one at a time, and
\* addMember and removeMember called in any order (addMember twice with the
\* same user included), every member list names each user at most once.
MembershipUnique ==
  \A g \in DOMAIN communities : \A u \in Users :
    MemberRecords(communities[g], u) <= 1

\* C11 witness: addMember has just been called with a user who was already a
\* member, on a community all three users belong to
MembershipUniqueWitness ==
  /\ cresp.op = "addMember" /\ cresp.arg = "member"
  /\ Len(communities[cresp.id].members) = 3

\* C12: after every creation, join or leave request the creator of each
\* community is on its member list with role admin, and a leave request by the
\* creator is rejected and leaves the member list as it was.
CreatorStays ==
  [][ /\ \A g \in DOMAIN communities' :
           \E i \in 1..Len(communities'[g].members) :
             communities'[g].members[i] =
               [user |-> communities'[g].createdBy, role |-> "admin"]
      /\ ( /\ cresp' # cresp /\ cresp'.op = "leave"
           /\ cresp'.id \in DOMAIN communities
           /\ communities[cresp'.id].createdBy = cresp'.user )
         => /\ cresp'.code >= 400
            /\ communities' = communities ]_vars

\* C12 witness: the creator's leave request has been rejected in a community
\* that another user has joined
CreatorStaysWitness ==
  /\ cresp.op = "leave" /\ cresp.code = 400
  /\ communities[cresp.id].createdBy = cresp.user
  /\ Len(communities[cresp.id].members) = 2

\* C13: a complaint has a resolution record only if a status change moved it
\* to Resolved; right after such a change resolvedBy is the requesting user and
\* description is the request's comment; a change to another status creates
\* no record.
ResolutionRecord ==
  /\ \A c \in DOMAIN complaints :
       LET doc == complaints[c]
       IN  doc.resolutionDetails # NoResolution
             => \E i \in 1..Len(doc.statusHistory) :
                  /\ doc.statusHistory[i].status = "Resolved"
                  /\ doc.statusHistory[i].changedBy = doc.resolutionDetails.resolvedBy
  /\ (resp.op = "status" /\ resp.saved /\ resp.arg = "Resolved")
       => complaints[resp.cid].resolutionDetails =
            [description |-> resp.note, resolvedBy |-> resp.user]

\* C13 witness: a complaint that went through another status first has just
\* been resolved with a comment
ResolutionRecordWitness ==
  /\ resp.op = "status" /\ resp.saved /\ resp.arg = "Resolved"
  /\ resp.note = "fixed" /\ resp.pre.histLen = 2

\* C14: over status changes, votes and comment creations, the statusHistory
\* after a request has the statusHistory before it as a prefix.
StatusHistoryAppendOnly ==
  [][ \A c \in DOMAIN complaints :
        IsPrefix(complaints[c].statusHistory, complaints'[c].statusHistory) ]_vars

\* C14 witness: a complaint with two status changes behind it, a vote and a
\* comment
StatusHistoryAppendOnlyWitness ==
  \E c \in DOMAIN complaints :
    /\ Len(complaints[c].statusHistory) = 4
    /\ Len(complaints[c].upvotes) > 0
    /\ Len(complaints[c].comments) > 0

\* C15: after n successive like requests of one user on one comment whose
\* like set held the user at most once, the user's liked state and the like
\* count are the original ones when n is even, and flipped, the count one off,
\* when n is odd; each response's hasLiked and likeCount are the saved
\* membership and the saved size.
LikeToggleParity ==
  (cresp.op = "like" /\ cresp.code = 200)
    => LET doc == comments[cresp.id]
           liked == Some(doc.likes, cresp.user)
           o == cresp.origin
       IN  /\ cresp.streak % 2 = 0
                => liked = o.liked /\ Len(doc.likes) = o.count
           /\ cresp.streak % 2 = 1
                => /\ liked = ~o.liked
                   /\ Len(doc.likes) = IF o.liked THEN o.count - 1
                                       ELSE o.count + 1
           /\ Count(doc.likes, cresp.user) <= 1
           /\ cresp.out.hasLiked = liked
           /\ cresp.out.likeCount = Len(doc.likes)

\* C15 witness: the third like in a row of a user, on a comment another user
\* likes
LikeToggleParityWitness ==
  /\ cresp.op = "like" /\ cresp.code = 200 /\ cresp.streak = 3
  /\ cresp.origin = [liked |-> FALSE, count |-> 1]
  /\ cresp.out.likeCount = 2

\* C16: once two interleaved like requests of one user on one comment have
\* both completed, the like set holds the user at most once.
NoDoubleLikeAfterRace ==
  (\A r \in Requests : inflight[r].pc = "idle")
    => \A m \in DOMAIN comments : \A u \in Users :
         Count(comments[m].likes, u) <= 1

\* C17: a served soft delete leaves the comment deleted, with a deletion time
\* and the placeholder as content, and its replies, likes, author and parent
\* references as they were.
SoftDeleteEffect ==
  (cresp.op = "delete" /\ cresp.code = 200)
    => LET doc == comments[cresp.id]
       IN  /\ doc.isDeleted
           /\ doc.deletedAt # NoTime
           /\ doc.content = Placeholder
           /\ doc.replies = cresp.pre.replies
           /\ doc.likes = cresp.pre.likes
           /\ doc.author = cresp.pre.author
           /\ doc.complaint = cresp.pre.complaint
           /\ doc.communityPost = cresp.pre.communityPost
           /\ doc.parentComment = cresp.pre.parentComment

\* C17 witness: a comment with a reply and a like has been deleted
SoftDeleteEffectWitness ==
  /\ cresp.op = "delete" /\ cresp.code = 200
  /\ Len(comments[cresp.id].replies) = 1
  /\ Len(comments[cresp.id].likes) = 1

\* C18: a soft-deleted comment is in no top-level listing of its complaint or
\* post, neither at the top level nor among the replies, and not in the total;
\* a fetch by id still returns it, with its replies.
SoftDeleteHidden ==
  /\ cresp.op \in {"listComplaint", "listPost"}
       => /\ \A m \in DOMAIN comments :
               comments[m].isDeleted
                 => /\ m \notin cresp.out.ids
                    /\ \A pr \in cresp.out.nested : pr[2] # m
          /\ cresp.out.total = Cardinality(cresp.out.ids)
  /\ (cresp.op = "get" /\ cresp.id \in DOMAIN comments)
       => /\ cresp.code = 200
          /\ cresp.out.isDeleted = comments[cresp.id].isDeleted
          /\ cresp.out.replies = comments[cresp.id].replies

\* C18 witness: a complaint's listing returns one comment while another
\* top-level comment of the complaint is deleted
SoftDeleteHiddenWitness ==
  /\ cresp.op = "listComplaint" /\ cresp.out.total = 1
  /\ \E m \in DOMAIN comments :
       /\ comments[m].isDeleted
       /\ comments[m].complaint = cresp.id
       /\ comments[m].parentComment = NoValue

\* C19: an edit request by a comment's author, with valid content, is accepted
\* exactly when it is made no more than 24 hours after the comment's creation;
\* otherwise it is answered 403 and the comment stays as it was.
EditWindow ==
  [][ ( /\ cresp' # cresp /\ cresp'.op = "edit"
        /\ cresp'.id \in DOMAIN comments
        /\ comments[cresp'.id].author = cresp'.user
        /\ Len(cresp'.arg) >= 1 )
      => /\ (cresp'.code = 200)
              <=> (now - comments[cresp'.id].createdAt <= EditWindowHours)
         /\ cresp'.code # 200 => cresp'.code = 403 /\ comments' = comments ]_vars

\* C19 witness: the author's edit has been turned down with 403
EditWindowWitness ==
  /\ cresp.op = "edit" /\ cresp.code = 403
  /\ cresp.id \in DOMAIN comments
  /\ comments[cresp.id].author = cresp.user
  /\ now - comments[cresp.id].createdAt > EditWindowHours

\* C20: a join request by a member and a leave request by a user who is not a
\* member are answered with an error and change neither the community's
\* member list nor the user's communities list.
InvalidMembershipNoOp ==
  [][ ( /\ cresp' # cresp
        /\ cresp'.id \in DOMAIN communities
        /\ \/ /\ cresp'.op = "join"
              /\ MemberRecords(communities[cresp'.id], cresp'.user) > 0
           \/ /\ cresp'.op = "leave"
              /\ MemberRecords(communities[cresp'.id], cresp'.user) = 0 )
      => /\ cresp'.code >= 400
         /\ communities' = communities
         /\ users' = users ]_vars

\* C20 witness: a user who joined earlier has asked to join again and been
\* turned down
InvalidMembershipNoOpWitness ==
  /\ cresp.op = "join" /\ cresp.code = 400
  /\ communities[cresp.id].createdBy # cresp.user
  /\ Len(users[cresp.user].communities) = 1

VoteFrame ==
  [][ (resp' # resp /\ resp'.op = "vote")
      => /\ DOMAIN complaints' = DOMAIN complaints
         /\ \A c \in DOMAIN complaints :
              LET a == complaints[c]
                  b == complaints'[c]
                  u == resp'.user
              IN  IF c # resp'.cid THEN b = a
                  ELSE /\ Without(b.upvotes, u) = Without(a.upvotes, u)
                       /\ Without(b.downvotes, u) = Without(a.downvotes, u)
                       /\ b.status = a.status
                       /\ b.statusHistory = a.statusHistory
                       /\ b.resolutionDetails = a.resolutionDetails
                       /\ b.comments = a.comments
                       /\ b.submittedBy = a.submittedBy
                       /\ b.assignedTo = a.assignedTo
         /\ comments' = comments ]_vars

\* C29 witness: a vote has been served on a resolved complaint with a comment
\* and another user's vote, while a second complaint holds a vote
VoteFrameWitness ==
  /\ resp.op = "vote" /\ resp.code = 200
  /\ LET doc == complaints[resp.cid]
     IN  /\ doc.status = "Resolved"
         /\ Len(doc.comments) = 1
         /\ Len(doc.upvotes) + Len(doc.downvotes) = 2
  /\ \E c \in DOMAIN complaints :
       c # resp.cid /\ Len(complaints[c].upvotes) = 1

\* the list a reference is pushed to once: old with m appended when the
\* request names its owner, old otherwise
PushedOnce(old, new, named, m) ==
  new = IF named THEN Append(old, m) ELSE old

\* C22: when a complaint, post or parent comment that a comment-creation
\* request names does not exist, the request is answered 404 and no comment,
\* complaint or post changes; when all exist, the comment is stored and its id
\* is appended exactly once to the comments of each named complaint and post
\* and to the replies of the named parent, and to no other list.
CommentCreationAtomic ==
  [][ ( /\ cresp' # cresp /\ cresp'.op = "createComment"
        /\ Len(cresp'.arg) >= 1
        /\ Given(cresp'.refs.complaint) \/ Given(cresp'.refs.communityPost) )
      => LET r == cresp'.refs
             m == cresp'.id
             missing ==
               \/ Given(r.complaint) /\ r.complaint \notin DOMAIN complaints
               \/ Given(r.communityPost) /\ r.communityPost \notin DOMAIN posts
               \/ Given(r.parentComment) /\ r.parentComment \notin DOMAIN comments
         IN  IF missing
             THEN /\ cresp'.code = 404
                  /\ comments' = comments
                  /\ complaints' = complaints
                  /\ posts' = posts
             ELSE /\ m \notin DOMAIN comments
                  /\ DOMAIN comments' = DOMAIN comments \cup {m}
                  /\ \A c \in DOMAIN complaints :
                       PushedOnce(complaints[c].comments, complaints'[c].comments,
                                  r.complaint = c, m)
                  /\ \A p \in DOMAIN posts :
                       PushedOnce(posts[p].comments, posts'[p].comments,
                                  r.communityPost = p, m)
                  /\ \A x \in DOMAIN comments :
                       PushedOnce(comments[x].replies, comments'[x].replies,
                                  r.parentComment = x, m) ]_vars

\* C22 witness: a reply naming a complaint that exists and a parent that does
\* not has been answered 404
CommentCreationAtomicWitness ==
  /\ cresp.op = "createComment" /\ cresp.code = 404
  /\ cresp.refs.complaint \in DOMAIN complaints
  /\ Given(cresp.refs.parentComment)
  /\ cresp.refs.parentComment \notin DOMAIN comments

\* C23: a soft delete is served only to the comment's author or to a user of
\* role admin; anyone else is answered 403 and the comment stays as it was.
DeleteAuthorization ==
  [][ (cresp' # cresp /\ cresp'.op = "delete" /\ cresp'.id \in DOMAIN comments)
      => LET doc == comments[cresp'.id]
             allowed == doc.author = cresp'.user \/ Role(cresp'.user) = "admin"
         IN  /\ cresp'.code = 200 => allowed
             /\ ~allowed => cresp'.code = 403 /\ comments' = comments ]_vars

\* C23 witness: a user who is neither the author nor an admin has been
\* answered 403
DeleteAuthorizationWitness ==
  /\ cresp.op = "delete" /\ cresp.code = 403
  /\ comments[cresp.id].author # cresp.user
  /\ ~comments[cresp.id].isDeleted

\* C24: when a stored post is saved with a changed title or content, the
\* entry appended to its editHistory holds the title and the content the post
\* had before the change and isEdited becomes true; a new post has an empty
\* editHistory.
PostHistoryKeepsPreEdit ==
  /\ (cresp.op = "createPost" /\ cresp.saved)
       => posts[cresp.id].editHistory = << >>
  /\ ( /\ cresp.op = "savePost"
       /\ \/ posts[cresp.id].title # cresp.pre.title
          \/ posts[cresp.id].content # cresp.pre.content )
       => LET doc == posts[cresp.id]
          IN  /\ doc.isEdited
              /\ doc.editHistory =
                   Append(cresp.pre.editHistory,
                          [title |-> cresp.pre.title,
                           content |-> cresp.pre.content])

NoDoubleJoinAfterRace ==
  (\A r \in Requests : inflight[r].pc = "idle")
    => \A g \in DOMAIN communities : \A u \in Users :
         /\ MemberRecords(communities[g], u) <= 1
         /\ Count(users[u].communities, g) <= 1

\* C27: with creation, join and leave requests served one at a time, a user
\* has a record in a community's member list exactly when the community is in
\* the user's communities list, and it is there once.
MembershipAgrees ==
  \A u \in Users :
    /\ \A g \in DOMAIN communities :
         /\ MemberRecords(communities[g], u) > 0
              <=> Some(users[u].communities, g)
         /\ Count(users[u].communities, g) <= 1
    /\ \A i \in 1..Len(users[u].communities) :
         users[u].communities[i] \in DOMAIN communities

\* C27 witness: a user has just left a community that another user, beside
\* the creator, belongs to
MembershipAgreesWitness ==
  /\ cresp.op = "leave" /\ cresp.code = 200
  /\ Len(communities[cresp.id].members) = 2
  /\ users[cresp.user].communities = << >>

\* C28: once a comment is deleted it stays deleted with the placeholder as
\* content, whatever request comes next.
TombstoneStays ==
  [][ \A m \in DOMAIN comments :
        comments[m].isDeleted
          => /\ comments'[m].isDeleted
             /\ comments'[m].content = Placeholder ]_vars

\* C30: a comment created with a parent has the parent's complaint and the
\* parent's communityPost, and a comment's replies are comments whose
\* parentComment is that comment.
RepliesInThread ==
  \A r \in DOMAIN comments :
    /\ Given(comments[r].parentComment)
         => LET p == comments[comments[r].parentComment]
            IN  /\ comments[r].complaint = p.complaint
                /\ comments[r].communityPost = p.communityPost
    /\ \A i \in 1..Len(comments[r].replies) :
         /\ comments[r].replies[i] \in DOMAIN comments
         /\ comments[comments[r].replies[i]].parentComment = r

====
